---- MODULE Spec2Model ----
(***************************************************************************)
(* A model of suggestive2's MPD protocol client (suggestive2/mpd.py).      *)
(*                                                                         *)
(* The client runs on one asyncio event loop: tasks are scheduled          *)
(* cooperatively and the code between two suspension points is atomic.     *)
(* The variable cur names the task that is running (0 when the loop is     *)
(* choosing the next ready task); a task that has not reached an await     *)
(* that really suspends keeps cur, so no other task or the server acts in  *)
(* between.                                                                *)
(***************************************************************************)
EXTENDS Naturals, Integers, Sequences, FiniteSets, TLC

\* Bounds of the model.
NumCallers == 3        \* application tasks that call the client
MaxOps == 3            \* client operations started in one behaviour
MaxSock == 2           \* TCP connections opened in one behaviour

Callers == 1..NumCallers
\* idle() of caller c runs MPDClient._idle as the task TaskOf(c).
TaskOf(c) == c + NumCallers
IdleTasks == {TaskOf(c) : c \in Callers}
Threads == Callers \cup IdleTasks
CallerOf(t) == t - NumCallers

\* The operations a caller starts: a plain-list command (clear, pause, ...,
\* through _run_list), a record command (playlistinfo, currentsong, ...,
\* through _run_tagged), idle(), connect() and close().
Ops == {"cmd", "tagged", "idle", "connect", "close"}

VARIABLES
    pc,         \* [Threads -> position in the code]
    op,         \* [Callers -> the operation in progress or last finished]
    cur,        \* the running task, 0 between tasks
    locks,      \* _lock, _noidle_lock, _idle_lock: holder and FIFO waiters
    idle_task,  \* MPDClient._idle_task: 0 is None
    rw,         \* MPDClient._reader/_writer: the installed socket, 0 is None
    lsock,      \* [Threads -> connect()'s local reader, writer]
    socks,      \* the sockets opened so far: first line received, closed
    installs,   \* how many times lines 85-86 ran
    wire,       \* bytes written to the installed socket, not yet processed
    inbuf,      \* lines sent by the server, not yet read
    sidle,      \* the idle command the server is waiting in, 0 if none
    stream,     \* the installed socket's read side: open, eof, reset
    cid,        \* [Threads -> id of the command the thread wrote, 0 if none]
    sentlog,    \* history: the commands written, in order; the id is the index;
                \* cancelled: the server ended this idle on a 'noidle'
    got,        \* [Threads -> lines _run yielded to its consumer]
    obj,        \* [Threads -> keys of _run_tagged's accumulator]
    nrec,       \* [Threads -> records _run_tagged yielded]
    term,       \* [Threads -> command whose terminator the thread read, 0 if none]
    res,        \* [Threads -> outcome of the operation]
    zombie,     \* thread whose abandoned _run generator still holds _lock
    nops,       \* operations started
    igen,       \* idle waits started
    lastWrite,  \* history: the last write and what was outstanding then
    hist,       \* history per caller: the request's and the send's context,
                \* and the request's number (seq)
    tagged,     \* a run of _run_tagged over a response: input, position, output
    escaped,    \* a call of util.escape: its argument and its result
    ui,         \* VimListBox and CommandPrompt: the rows, the search's fields,
                \* the last key and (history) the fields before it
    enq,        \* a run of LibraryAlbum.enqueue: the queue entries, the outcome
    app         \* Application.mpd and mpd_lock, and the callers of async_mpd

\* The client's variables, the application's, and all of them.
mpdvars == <<pc, op, cur, locks, idle_task, rw, lsock, socks, installs, wire,
             inbuf, sidle, stream, cid, sentlog, got, obj, nrec, term, res,
             zombie, nops, igen, lastWrite, hist>>
appvars == <<tagged, escaped, ui, enq, app>>
vars == <<mpdvars, appvars>>

----------------------------------------------------------------------------
\* Lines and outcomes.

\* A line of the server: its kind, the command it answers, and for an ACK
\* line its words (the line split at single spaces).
Line(k, of) == [k |-> k, of |-> of, w |-> <<>>]
AckWords == <<"ACK", "[50@0]", "{play}", "no", "song\n">>
AckLine(of) == [k |-> "ACK", of |-> of, w |-> AckWords]
\* What readline() returns at end of file: b''.
EofLine == [k |-> "", of |-> 0, w |-> <<>>]

NoRes == [k |-> "none", m |-> <<>>]
Res(k) == [k |-> k, m |-> <<>>]

\* The first lines a server may send on connect (split at spaces).
BannerPrefix == <<"OK", "MPD">>
Banners == {<<"OK", "MPD", "0.20.0\n">>, <<"welkrjewlkj\n">>, <<>>}
\* bytes.startswith of a prefix that ends with a space: the prefix's words
\* are the line's first words and another word follows.
StartsWith(s, p) == Len(s) > Len(p) /\ SubSeq(s, 1, Len(p)) = p

\* ngen and n: the idle wait the last 'noidle' was written in, and how many
\* were written in that wait.
NoWrite == [k |-> "none", id |-> 0, pend |-> {}, sock |-> 0, dead |-> FALSE,
            ngen |-> 0, n |-> 0]
NoHist == [req |-> 0, noidle |-> FALSE, sent |-> FALSE, cleared |-> FALSE,
           unread |-> FALSE, seq |-> 0]

----------------------------------------------------------------------------
\* asyncio.Lock: acquire() takes a free lock with no waiters at once and
\* otherwise queues; release() unlocks and wakes the first waiter, which
\* locks when it next runs.
FreeLock == [holder |-> 0, waiters |-> <<>>]
Locked(l) == locks[l].holder # 0
\* A lock that excludes nobody.
CanTakeAlways(l) == TRUE
CanTake(l) == locks[l].holder = 0 /\ locks[l].waiters = <<>>
Taken(l, t) == [locks EXCEPT ![l].holder = t]
Queued(l, t) == [locks EXCEPT ![l].waiters = Append(@, t)]
Released(l) == [locks EXCEPT ![l].holder = 0]

ClientInit ==
    /\ pc = [t \in Threads |-> IF t \in Callers THEN "rest" ELSE "off"]
    /\ op = [c \in Callers |-> "none"]
    /\ cur = 0
    /\ locks = [l \in {"lock", "noidle", "idle"} |-> FreeLock]
    /\ idle_task = 0
    /\ rw = 0
    /\ lsock = [t \in Threads |-> 0]
    /\ socks = <<>>
    /\ installs = 0
    /\ wire = <<>>
    /\ inbuf = <<>>
    /\ sidle = 0
    /\ stream = "open"
    /\ cid = [t \in Threads |-> 0]
    /\ sentlog = <<>>
    /\ got = [t \in Threads |-> {}]
    /\ obj = [t \in Threads |-> {}]
    /\ nrec = [t \in Threads |-> 0]
    /\ term = [t \in Threads |-> 0]
    /\ res = [t \in Threads |-> NoRes]
    /\ zombie = 0
    /\ nops = 0
    /\ igen = 0
    /\ lastWrite = NoWrite
    /\ hist = [c \in Callers |-> NoHist]

\* The application's part of the state while only the client is exercised:
\* no response being parsed, nothing escaped, an empty list view, nothing
\* enqueued.
NoTagged == [type |-> "", lines |-> <<>>, i |-> 0, obj |-> <<>>, recs |-> <<>>,
             done |-> FALSE]
NoEscaped == [s |-> <<>>, out |-> <<>>, called |-> FALSE]
NoUi == [library |-> <<>>, search_contents |-> <<>>, search_results |-> <<>>,
         search_result |-> <<>>, focus_position |-> 0, edit_text |-> <<>>,
         focus |-> "body", error |-> "none", last |-> "none",
         prev_results |-> <<>>, prev_focus |-> 0, prev_text |-> <<>>]
NoEnq == [play |-> FALSE, tracks |-> <<>>, pcq |-> "rest", found |-> <<>>,
          sent |-> <<>>, error |-> "none"]

\* The coroutines that call Application.async_mpd.
NumTasks == 3
AppTasks == 1..NumTasks
\* Application.__init__: mpd is None (0) and mpd_lock is free. at, client,
\* ret and calls are each coroutine's position in async_mpd, the MPDClient
\* it is connecting, what its last call returned (0 nothing yet, -1 raised)
\* and its finished calls. History: made counts the MPDClients constructed,
\* connected holds those whose connect() returned, installed lists every
\* value assigned to self.mpd, queued the coroutines that waited for
\* mpd_lock.
NoApp == [mpd |-> 0, mpd_lock |-> FreeLock,
          at |-> [a \in AppTasks |-> "rest"],
          client |-> [a \in AppTasks |-> 0],
          ret |-> [a \in AppTasks |-> 0],
          calls |-> [a \in AppTasks |-> 0],
          made |-> 0, connected |-> {}, installed |-> <<>>, queued |-> {}]

Init ==
    /\ ClientInit
    /\ tagged = NoTagged
    /\ escaped = NoEscaped
    /\ ui = NoUi
    /\ enq = NoEnq
    /\ app = NoApp

----------------------------------------------------------------------------
\* The command a thread passes to _run: the idle task runs 'idle'.
Command(t) == IF t \in IdleTasks THEN "idle" ELSE op[t]

\* The commands whose terminating OK/ACK line has not been read: written and
\* not yet processed, being waited in by the server, or answered with the
\* terminator still unread.
Unanswered ==
    {wire[i].id : i \in {j \in DOMAIN wire : wire[j].k \notin {"noidle", "close"}}}
        \cup (IF sidle # 0 THEN {sidle} ELSE {})
Outstanding ==
    Unanswered
        \cup {inbuf[i].of : i \in {j \in DOMAIN inbuf : inbuf[j].k \in {"OK", "ACK"}}}
IdleOutstanding == \E i \in Outstanding : sentlog[i].k = "idle"

\* StreamWriter.write on a closed transport drops the bytes, and drain()
\* then raises ConnectionResetError; drain() also raises the reader's
\* exception after a connection reset.
WriterDead == socks[rw].closed \/ stream = "reset"

\* The operation of thread t ends with outcome r.
Finish(t, r) ==
    /\ pc' = [pc EXCEPT ![t] = IF t \in Callers THEN "rest" ELSE "tdone"]
    /\ res' = [res EXCEPT ![t] = r]
    /\ cur' = 0

\* A caller starts an operation; the call runs to its first suspension.
\* The callers are interchangeable, so they make their first calls in the
\* order of their numbers.
Request(c, o) ==
    /\ cur = 0
    /\ pc[c] = "rest"
    /\ nops < MaxOps
    /\ \A b \in Callers : b < c => op[b] # "none"
    /\ nops' = nops + 1
    /\ op' = [op EXCEPT ![c] = o]
    /\ pc' = [pc EXCEPT ![c] =
                CASE o \in {"cmd", "tagged"} -> "run"
                  [] o = "idle" -> "idle_acq"
                  [] o = "connect" -> "conn_acq"
                  [] OTHER -> "close"]
    /\ cur' = c
    /\ cid' = [cid EXCEPT ![c] = 0]
    /\ got' = [got EXCEPT ![c] = {}]
    /\ obj' = [obj EXCEPT ![c] = {}]
    /\ nrec' = [nrec EXCEPT ![c] = 0]
    /\ term' = [term EXCEPT ![c] = 0]
    /\ res' = [res EXCEPT ![c] = NoRes]
    /\ hist' = [hist EXCEPT ![c] =
                  [NoHist EXCEPT !.req = IF idle_task # 0 THEN igen ELSE 0,
                                 !.seq = nops + 1]]
    /\ UNCHANGED <<locks, idle_task, rw, lsock, socks, installs, wire, inbuf,
                   sidle, stream, sentlog, zombie, igen, lastWrite>>
    /\ UNCHANGED appvars

\* _run, line 106: whether the command must cancel a pending idle first.
MustCancel(t) ==
    Command(t) # "idle" /\ Locked("lock") /\ Locked("idle")

\* _run, lines 106-110.
Precheck(t) ==
    /\ cur = t
    /\ pc[t] = "run"
    /\ IF MustCancel(t)
       THEN IF idle_task = 0
            THEN pc' = [pc EXCEPT ![t] = "poll_task"] /\ cur' = 0
            ELSE pc' = [pc EXCEPT ![t] = "noidle_acq"] /\ cur' = t
       ELSE pc' = [pc EXCEPT ![t] = "chk_conn"] /\ cur' = t
    /\ UNCHANGED <<op, locks, idle_task, rw, lsock, socks, installs, wire,
                   inbuf, sidle, stream, cid, sentlog, got, obj, nrec, term, res,
                   zombie, nops, igen, lastWrite, hist>>
    /\ UNCHANGED appvars

\* The lock each acquiring or waiting position is about, and the position
\* inside the lock.
AcqPcs == {"noidle_acq", "conn_acq", "cmd_acq", "idle_acq"}
WaitPcs == {"noidle_wait", "conn_wait", "cmd_wait", "idle_wait"}
LockAt(p) ==
    CASE p \in {"noidle_acq", "noidle_wait"} -> "noidle"
      [] p \in {"idle_acq", "idle_wait"} -> "idle"
      [] OTHER -> "lock"
WaitOf(p) ==
    CASE p = "noidle_acq" -> "noidle_wait"
      [] p = "conn_acq" -> "conn_wait"
      [] p = "cmd_acq" -> "cmd_wait"
      [] OTHER -> "idle_wait"
InsideOf(p) ==
    CASE p \in {"noidle_acq", "noidle_wait"} -> "noidle_in"
      [] p \in {"conn_acq", "conn_wait"} -> "conn_in"
      [] p \in {"cmd_acq", "cmd_wait"} -> "send"
      [] OTHER -> "idle_in"

\* async with lock (lines 50, 110): taken at once, or the task queues.
LockAcquire(t) ==
    /\ cur = t
    /\ pc[t] \in AcqPcs
    /\ IF CanTake(LockAt(pc[t]))
       THEN /\ locks' = Taken(LockAt(pc[t]), t)
            /\ pc' = [pc EXCEPT ![t] = InsideOf(pc[t])]
            /\ cur' = t
       ELSE /\ locks' = Queued(LockAt(pc[t]), t)
            /\ pc' = [pc EXCEPT ![t] = WaitOf(pc[t])]
            /\ cur' = 0
    /\ UNCHANGED <<op, idle_task, rw, lsock, socks, installs, wire, inbuf,
                   sidle, stream, cid, sentlog, got, obj, nrec, term, res, zombie,
                   nops, igen, lastWrite, hist>>
    /\ UNCHANGED appvars

\* The first waiter of a released lock runs and locks it.
LockWake(t) ==
    /\ cur = 0
    /\ pc[t] \in WaitPcs
    /\ locks[LockAt(pc[t])].holder = 0
    /\ locks[LockAt(pc[t])].waiters # <<>>
    /\ Head(locks[LockAt(pc[t])].waiters) = t
    /\ locks' = [locks EXCEPT ![LockAt(pc[t])] =
                    [holder |-> t, waiters |-> Tail(@.waiters)]]
    /\ pc' = [pc EXCEPT ![t] = InsideOf(pc[t])]
    /\ cur' = t
    /\ UNCHANGED <<op, idle_task, rw, lsock, socks, installs, wire, inbuf,
                   sidle, stream, cid, sentlog, got, obj, nrec, term, res, zombie,
                   nops, igen, lastWrite, hist>>
    /\ UNCHANGED appvars

\* _run without the test of line 111.
AlwaysPending == TRUE
\* _run, line 111: a wait is still pending.
StillPending == idle_task # 0

\* _run, lines 111-115, holding _noidle_lock: send 'noidle' if a wait is
\* still pending, then poll until it is gone.
NoidleBody(t) ==
    /\ cur = t
    /\ pc[t] = "noidle_in"
    /\ IF ~StillPending
       THEN /\ locks' = Released("noidle")
            /\ pc' = [pc EXCEPT ![t] = "chk_conn"]
            /\ cur' = t
            /\ UNCHANGED <<res, wire, lastWrite, hist>>
       ELSE IF rw = 0
       THEN \* self._writer is None
            /\ locks' = Released("noidle")
            /\ Finish(t, Res("AttributeError"))
            /\ UNCHANGED <<wire, lastWrite, hist>>
       ELSE IF WriterDead
       THEN /\ locks' = Released("noidle")
            /\ Finish(t, Res("ConnectionResetError"))
            /\ lastWrite' = [k |-> "noidle", id |-> 0, pend |-> Outstanding,
                             sock |-> rw, dead |-> TRUE,
                             ngen |-> lastWrite.ngen, n |-> lastWrite.n]
            /\ UNCHANGED <<wire, hist>>
       ELSE /\ wire' = Append(wire, [k |-> "noidle", id |-> 0])
            /\ lastWrite' = [k |-> "noidle", id |-> 0, pend |-> Outstanding,
                             sock |-> rw, dead |-> FALSE, ngen |-> igen,
                             n |-> IF lastWrite.ngen = igen
                                   THEN lastWrite.n + 1 ELSE 1]
            /\ hist' = [c \in Callers |-> [hist[c] EXCEPT !.noidle = TRUE]]
            /\ pc' = [pc EXCEPT ![t] = "noidle_poll"]
            /\ cur' = 0
            /\ UNCHANGED <<locks, res>>
    /\ UNCHANGED <<op, idle_task, rw, lsock, socks, installs, inbuf, sidle,
                   stream, cid, sentlog, got, obj, nrec, term, zombie, nops, igen>>
    /\ UNCHANGED appvars

\* asyncio.sleep(0.01) returns and the loop condition is false: line 107
\* (the task has appeared) or line 114 (the task is gone).
SleepWake(t) ==
    /\ cur = 0
    /\ pc[t] \in {"poll_task", "noidle_poll"}
    /\ IF pc[t] = "poll_task"
       THEN /\ idle_task # 0
            /\ pc' = [pc EXCEPT ![t] = "noidle_acq"]
            /\ UNCHANGED locks
       ELSE /\ idle_task = 0
            /\ locks' = Released("noidle")
            /\ pc' = [pc EXCEPT ![t] = "chk_conn"]
    /\ cur' = t
    /\ UNCHANGED <<op, idle_task, rw, lsock, socks, installs, wire, inbuf,
                   sidle, stream, cid, sentlog, got, obj, nrec, term, res, zombie,
                   nops, igen, lastWrite, hist>>
    /\ UNCHANGED appvars

\* _run, line 117.
ChkConn(t) ==
    /\ cur = t
    /\ pc[t] = "chk_conn"
    /\ pc' = [pc EXCEPT ![t] = IF rw = 0 THEN "conn_acq" ELSE "cmd_acq"]
    /\ cur' = t
    /\ UNCHANGED <<op, locks, idle_task, rw, lsock, socks, installs, wire,
                   inbuf, sidle, stream, cid, sentlog, got, obj, nrec, term, res,
                   zombie, nops, igen, lastWrite, hist>>
    /\ UNCHANGED appvars

----------------------------------------------------------------------------
\* connect() returns to its caller: to the application (connect()), or to
\* _run at line 120.
ConnReturn(t) ==
    IF Command(t) = "connect"
    THEN Finish(t, Res("ok"))
    ELSE pc' = [pc EXCEPT ![t] = "cmd_acq"] /\ cur' = t /\ UNCHANGED res

\* connect() without the test of line 58.
NeverAlreadyConnected == FALSE

\* connect(), line 58: already connected.
AlreadyConnected == rw # 0

\* connect(), lines 58-65, holding _lock.
ConnIn(t) ==
    /\ cur = t
    /\ pc[t] = "conn_in"
    /\ IF AlreadyConnected
       THEN locks' = Released("lock") /\ ConnReturn(t)
       ELSE /\ pc' = [pc EXCEPT ![t] = "conn_open"]
            /\ cur' = 0
            /\ UNCHANGED <<locks, res>>
    /\ UNCHANGED <<op, idle_task, rw, lsock, socks, installs, wire, inbuf,
                   sidle, stream, cid, sentlog, got, obj, nrec, term, zombie, nops,
                   igen, lastWrite, hist>>
    /\ UNCHANGED appvars

\* connect(), lines 64-67: open_connection returns a socket or fails.
ConnOpen(t, ok) ==
    /\ cur = 0
    /\ pc[t] = "conn_open"
    /\ IF ok
       THEN /\ Len(socks) < MaxSock
            /\ socks' = Append(socks, [first |-> <<>>, timedout |-> FALSE,
                                       closed |-> FALSE])
            /\ lsock' = [lsock EXCEPT ![t] = Len(socks) + 1]
            /\ pc' = [pc EXCEPT ![t] = "conn_banner"]
            /\ cur' = 0
            /\ UNCHANGED <<locks, res>>
       ELSE /\ locks' = Released("lock")
            /\ Finish(t, Res("ConnectionError"))
            /\ UNCHANGED <<socks, lsock>>
    /\ UNCHANGED <<op, idle_task, rw, installs, wire, inbuf, sidle, stream,
                   cid, sentlog, got, obj, nrec, term, zombie, nops, igen,
                   lastWrite, hist>>
    /\ UNCHANGED appvars

\* connect() with the test of line 72 only: any non-empty first line.
BannerNotEmpty(b) == b # <<>>

\* connect(), lines 72-77: the first line is accepted.
BannerOk(b) == b # <<>> /\ StartsWith(b, BannerPrefix)

\* connect(), lines 69-88: the first line arrives (b), or nothing does
\* within the timeout.
ConnBanner(t, b, timeout) ==
    /\ cur = 0
    /\ pc[t] = "conn_banner"
    /\ locks' = Released("lock")
    /\ IF timeout
       THEN /\ socks' = [socks EXCEPT ![lsock[t]].closed = TRUE,
                                      ![lsock[t]].timedout = TRUE]
            /\ Finish(t, Res("TimeoutError"))
            /\ UNCHANGED <<rw, installs, stream, wire, inbuf, sidle>>
       ELSE IF ~BannerOk(b)
       THEN /\ socks' = [socks EXCEPT ![lsock[t]].closed = TRUE,
                                      ![lsock[t]].first = b]
            /\ Finish(t, Res("ConnectionError"))
            /\ UNCHANGED <<rw, installs, stream, wire, inbuf, sidle>>
       ELSE /\ socks' = [socks EXCEPT ![lsock[t]].first = b]
            /\ rw' = lsock[t]
            /\ installs' = installs + 1
            /\ stream' = "open"
            /\ wire' = <<>>
            /\ inbuf' = <<>>
            /\ sidle' = 0
            /\ ConnReturn(t)
    /\ lsock' = [lsock EXCEPT ![t] = 0]
    /\ UNCHANGED <<op, idle_task, cid, sentlog, got, obj, nrec, term, zombie, nops,
                   igen, lastWrite, hist>>
    /\ UNCHANGED appvars

\* _run, line 121: _send_command(command) holding _lock.
Send(t) ==
    /\ cur = t
    /\ pc[t] = "send"
    /\ IF rw = 0
       THEN /\ locks' = Released("lock")
            /\ Finish(t, Res("AttributeError"))
            /\ UNCHANGED <<wire, cid, sentlog, lastWrite, hist>>
       ELSE IF WriterDead
       THEN /\ locks' = Released("lock")
            /\ Finish(t, Res("ConnectionResetError"))
            /\ lastWrite' = [k |-> Command(t), id |-> 0, pend |-> Outstanding,
                             sock |-> rw, dead |-> TRUE,
                             ngen |-> lastWrite.ngen, n |-> lastWrite.n]
            /\ UNCHANGED <<wire, cid, sentlog, hist>>
       ELSE /\ sentlog' = Append(sentlog, [k |-> Command(t), by |-> t,
                                           cancelled |-> FALSE])
            /\ cid' = [cid EXCEPT ![t] = Len(sentlog) + 1]
            /\ wire' = Append(wire, [k |-> Command(t), id |-> Len(sentlog) + 1])
            /\ lastWrite' = [k |-> Command(t), id |-> Len(sentlog) + 1,
                             pend |-> Outstanding, sock |-> rw, dead |-> FALSE,
                             ngen |-> lastWrite.ngen, n |-> lastWrite.n]
            /\ hist' = IF t \in Callers
                       THEN [hist EXCEPT ![t].sent = TRUE,
                                ![t].cleared = (idle_task = 0 \/ igen # hist[t].req),
                                ![t].unread = IdleOutstanding]
                       ELSE hist
            /\ pc' = [pc EXCEPT ![t] = "read"]
            /\ cur' = 0
            /\ UNCHANGED <<locks, res>>
    /\ UNCHANGED <<op, idle_task, rw, lsock, socks, installs, inbuf, sidle,
                   stream, got, obj, nrec, term, zombie, nops, igen>>
    /\ UNCHANGED appvars

----------------------------------------------------------------------------
\* _run, lines 133 and 138: the tests on a line that was read.
IsAck(l) == StartsWith(l.w, <<"ACK">>)
IsOk(l) == l.k = "OK"
\* The message if line 135 split at two spaces: line.split(' ', 2)[-1].
AckMessageSplit2(w) == IF Len(w) >= 3 THEN SubSeq(w, 3, Len(w)) ELSE <<w[Len(w)]>>
\* _run, line 135: line.split(' ', 3)[-1].
AckMessage(w) == IF Len(w) >= 4 THEN SubSeq(w, 4, Len(w)) ELSE <<w[Len(w)]>>

\* _run_tagged's start field: 'changed' for idle, 'file' for the queue
\* commands.
TypeOf(t) == IF Command(t) = "idle" THEN "changed" ELSE "file"
\* line.split(': ', 1) yields a tag and a value.
Splits(l) == l.k \in {"file", "changed"}
\* _idle, line 191: item['changed'] of a yielded record.
MissingChanged(t) == Command(t) = "idle" /\ "changed" \notin obj[t]

\* _run, line 141, yields l, and the consumer takes it: _run_list (line
\* 144) appends; _run_tagged (lines 152-159) splits the line and may yield
\* the accumulator to its own consumer.  An exception raised by the
\* consumer leaves the _run generator suspended at its yield, inside
\* _lock, until the generator is finalized.
Yield(t, l) ==
    /\ got' = [got EXCEPT ![t] = @ \cup {l}]
    /\ IF Command(t) = "cmd"
       THEN /\ pc' = pc
            /\ cur' = 0
            /\ UNCHANGED <<obj, nrec, res, zombie>>
       ELSE IF ~Splits(l)
       THEN /\ zombie' = t
            /\ Finish(t, Res("UnpackError"))
            /\ UNCHANGED <<obj, nrec>>
       ELSE IF l.k = TypeOf(t) /\ obj[t] # {}
       THEN /\ nrec' = [nrec EXCEPT ![t] = @ + 1]
            /\ IF MissingChanged(t)
               THEN /\ zombie' = t
                    /\ Finish(t, Res("KeyError"))
                    /\ UNCHANGED obj
               ELSE /\ obj' = [obj EXCEPT ![t] = {l.k}]
                    /\ pc' = pc
                    /\ cur' = 0
                    /\ UNCHANGED <<res, zombie>>
       ELSE /\ obj' = [obj EXCEPT ![t] = @ \cup {l.k}]
            /\ pc' = pc
            /\ cur' = 0
            /\ UNCHANGED <<nrec, res, zombie>>

\* _run_tagged without the test of line 161.
AlwaysRecord(t) == TRUE
\* _run_tagged, line 161: the accumulator holds a record.
HasRecord(t) == obj[t] # {}

\* _run returns at line 139; _run_list returns its list, _run_tagged
\* yields a non-empty accumulator (lines 161-162).
EndOfResponse(t) ==
    /\ IF Command(t) = "cmd" \/ ~HasRecord(t)
       THEN Finish(t, Res("ok")) /\ UNCHANGED nrec
       ELSE /\ nrec' = [nrec EXCEPT ![t] = @ + 1]
            /\ Finish(t, IF MissingChanged(t) THEN Res("KeyError") ELSE Res("ok"))
    /\ UNCHANGED <<got, obj, zombie>>

\* The _lock after _run has handled a terminator or a failed read (the
\* exit of the async with at line 120).
AfterCommand == Released("lock")

\* _run, lines 125-141: readline() returns the next line of the server.
ReadLine(t) ==
    /\ cur = 0
    /\ pc[t] = "read"
    /\ stream # "reset"
    /\ inbuf # <<>>
    /\ inbuf' = Tail(inbuf)
    /\ IF IsAck(Head(inbuf))
       THEN /\ locks' = AfterCommand
            /\ term' = [term EXCEPT ![t] = Head(inbuf).of]
            /\ Finish(t, [k |-> "MPDError", m |-> AckMessage(Head(inbuf).w)])
            /\ UNCHANGED <<got, obj, nrec, zombie>>
       ELSE IF IsOk(Head(inbuf))
       THEN /\ locks' = AfterCommand
            /\ term' = [term EXCEPT ![t] = Head(inbuf).of]
            /\ EndOfResponse(t)
       ELSE /\ Yield(t, Head(inbuf))
            /\ UNCHANGED <<locks, term>>
    /\ UNCHANGED <<op, idle_task, rw, lsock, socks, installs, wire, sidle,
                   stream, cid, sentlog, nops, igen, lastWrite, hist>>
    /\ UNCHANGED appvars

\* What _run does with the b'' that readline() returns at end of file:
\* line 131 tests for None, so the line is yielded like any other.
AtEof(t) == Yield(t, EofLine) /\ UNCHANGED <<locks, term>>

\* _run, lines 125-141 at end of file.
ReadEof(t) ==
    /\ cur = 0
    /\ pc[t] = "read"
    /\ stream = "eof"
    /\ inbuf = <<>>
    /\ AtEof(t)
    /\ UNCHANGED <<op, idle_task, rw, lsock, socks, installs, wire, inbuf,
                   sidle, stream, cid, sentlog, nops, igen, lastWrite, hist>>
    /\ UNCHANGED appvars

\* _run if every command were run with timeout=None.
NeverTimesOut(t) == FALSE

\* _run's timeout: None for idle (line 190), 1.0 otherwise (line 105).
HasTimeout(t) == Command(t) # "idle"

\* _run, lines 124-127: readline() raises (connection reset), or no line
\* arrives within the timeout.
ReadFails(t) ==
    /\ cur = 0
    /\ pc[t] = "read"
    /\ IF stream = "reset"
       THEN TRUE
       ELSE stream = "open" /\ inbuf = <<>> /\ HasTimeout(t)
    /\ locks' = AfterCommand
    /\ Finish(t, Res(IF stream = "reset" THEN "ReadError" ELSE "Timeout"))
    /\ UNCHANGED <<op, idle_task, rw, lsock, socks, installs, wire, inbuf,
                   sidle, stream, cid, sentlog, got, obj, nrec, term, zombie,
                   nops, igen, lastWrite, hist>>
    /\ UNCHANGED appvars

----------------------------------------------------------------------------
\* idle(), lines 195-199, holding _idle_lock: create the task, record it,
\* await it.
IdleIn(c) ==
    /\ cur = c
    /\ pc[c] = "idle_in"
    /\ idle_task' = TaskOf(c)
    /\ igen' = igen + 1
    /\ pc' = [pc EXCEPT ![c] = "idle_await", ![TaskOf(c)] = "tstart"]
    /\ cur' = 0
    /\ cid' = [cid EXCEPT ![TaskOf(c)] = 0]
    /\ got' = [got EXCEPT ![TaskOf(c)] = {}]
    /\ obj' = [obj EXCEPT ![TaskOf(c)] = {}]
    /\ nrec' = [nrec EXCEPT ![TaskOf(c)] = 0]
    /\ term' = [term EXCEPT ![TaskOf(c)] = 0]
    /\ res' = [res EXCEPT ![TaskOf(c)] = NoRes]
    /\ UNCHANGED <<op, locks, rw, lsock, socks, installs, wire, inbuf, sidle,
                   stream, sentlog, zombie, nops, lastWrite, hist>>
    /\ UNCHANGED appvars

\* The event loop runs the new task: _idle calls _run_tagged('idle'),
\* which enters _run.
TaskStart(t) ==
    /\ cur = 0
    /\ pc[t] = "tstart"
    /\ pc' = [pc EXCEPT ![t] = "run"]
    /\ cur' = t
    /\ UNCHANGED <<op, locks, idle_task, rw, lsock, socks, installs, wire,
                   inbuf, sidle, stream, cid, sentlog, got, obj, nrec, term,
                   res, zombie, nops, igen, lastWrite, hist>>
    /\ UNCHANGED appvars

\* idle(), lines 199-202: the task is done; the finally clause clears
\* _idle_task and _idle_lock is released.
IdleReturn(c) ==
    /\ cur = 0
    /\ pc[c] = "idle_await"
    /\ pc[TaskOf(c)] = "tdone"
    /\ idle_task' = 0
    /\ locks' = Released("idle")
    /\ res' = [res EXCEPT ![c] = res[TaskOf(c)]]
    /\ pc' = [pc EXCEPT ![c] = "rest", ![TaskOf(c)] = "off"]
    /\ cur' = 0
    /\ UNCHANGED <<op, rw, lsock, socks, installs, wire, inbuf, sidle, stream,
                   cid, sentlog, got, obj, nrec, term, zombie, nops, igen,
                   lastWrite, hist>>
    /\ UNCHANGED appvars

\* close(), lines 90-95: no lock is taken and _reader/_writer are kept.
\* The transport's close makes the reader see end of file.
Close(c) ==
    /\ cur = c
    /\ pc[c] = "close"
    /\ IF rw = 0
       THEN UNCHANGED <<wire, lastWrite, socks, stream>>
       ELSE /\ IF WriterDead
               THEN wire' = wire
               ELSE wire' = Append(wire, [k |-> "close", id |-> 0])
            /\ lastWrite' = [k |-> "close", id |-> 0, pend |-> Outstanding,
                             sock |-> rw, dead |-> WriterDead,
                             ngen |-> lastWrite.ngen, n |-> lastWrite.n]
            /\ socks' = [socks EXCEPT ![rw].closed = TRUE]
            /\ stream' = IF stream = "open" THEN "eof" ELSE stream
    /\ Finish(c, Res("ok"))
    /\ UNCHANGED <<op, locks, idle_task, rw, lsock, installs, inbuf, sidle,
                   cid, sentlog, got, obj, nrec, term, zombie, nops, igen,
                   hist>>
    /\ UNCHANGED appvars

\* The event loop's asynchronous-generator finalizer closes an abandoned
\* _run generator: GeneratorExit at its yield leaves the async with of
\* line 120.  When this happens is up to the garbage collector; the
\* generator of an idle task lives at least as long as idle() awaits the
\* task.
Finalize ==
    /\ cur = 0
    /\ zombie # 0
    /\ zombie \in IdleTasks => pc[zombie] = "off"
    /\ zombie' = 0
    /\ locks' = Released("lock")
    /\ UNCHANGED <<pc, op, cur, idle_task, rw, lsock, socks, installs, wire,
                   inbuf, sidle, stream, cid, sentlog, got, obj, nrec, term,
                   res, nops, igen, lastWrite, hist>>
    /\ UNCHANGED appvars

----------------------------------------------------------------------------
\* The server (MPD's protocol, as the client's reads at lines 125-141
\* expect it).

\* The server can act on the installed connection.
ServerUp == cur = 0 /\ rw # 0 /\ stream = "open" /\ ~socks[rw].closed

\* The well-formed responses to an ordinary command c with id i, and all
\* its responses: a record command may also get a line without ': '.
GoodResponses(c, i) ==
    IF c = "cmd"
    THEN {<<Line("OK", i)>>, <<AckLine(i)>>}
    ELSE {<<Line("OK", i)>>, <<AckLine(i)>>, <<Line("file", i), Line("OK", i)>>}
Responses(c, i) ==
    IF c = "cmd"
    THEN GoodResponses(c, i)
    ELSE GoodResponses(c, i) \cup {<<Line("bad", i), Line("OK", i)>>}

\* The server answers the next ordinary command: with a well-formed
\* response (good), or with any response.
ServerAnswerWith(good) ==
    /\ ServerUp
    /\ wire # <<>>
    /\ sidle = 0
    /\ Head(wire).k \in {"cmd", "tagged"}
    /\ \E r \in (IF good THEN GoodResponses(Head(wire).k, Head(wire).id)
                         ELSE Responses(Head(wire).k, Head(wire).id)) :
          inbuf' = inbuf \o r
    /\ wire' = Tail(wire)
    /\ UNCHANGED <<pc, op, cur, locks, idle_task, rw, lsock, socks, installs,
                   sidle, stream, cid, sentlog, got, obj, nrec, term, res,
                   zombie, nops, igen, lastWrite, hist>>
    /\ UNCHANGED appvars
ServerAnswer == ServerAnswerWith(FALSE)

\* The server takes idle, noidle or close, or any command while it waits
\* in idle: idle starts the wait; noidle ends a wait with OK and is ignored
\* otherwise; close, and any other command during a wait, end the
\* connection.
ServerControl ==
    /\ ServerUp
    /\ wire # <<>>
    /\ sidle # 0 \/ Head(wire).k \in {"idle", "noidle", "close"}
    /\ wire' = Tail(wire)
    /\ IF Head(wire).k = "noidle"
       THEN /\ inbuf' = IF sidle # 0 THEN Append(inbuf, Line("OK", sidle)) ELSE inbuf
            /\ sentlog' = IF sidle # 0
                          THEN [sentlog EXCEPT ![sidle].cancelled = TRUE]
                          ELSE sentlog
            /\ sidle' = 0
            /\ UNCHANGED stream
       ELSE IF sidle = 0 /\ Head(wire).k = "idle"
       THEN /\ sidle' = Head(wire).id
            /\ UNCHANGED <<inbuf, stream, sentlog>>
       ELSE /\ stream' = "eof"
            /\ UNCHANGED <<inbuf, sidle, sentlog>>
    /\ UNCHANGED <<pc, op, cur, locks, idle_task, rw, lsock, socks, installs,
                   cid, got, obj, nrec, term, res, zombie, nops, igen,
                   lastWrite, hist>>
    /\ UNCHANGED appvars

\* A subsystem changes while the server waits in idle.
ServerChange ==
    /\ ServerUp
    /\ sidle # 0
    /\ inbuf' = inbuf \o <<Line("changed", sidle), Line("OK", sidle)>>
    /\ sidle' = 0
    /\ UNCHANGED <<pc, op, cur, locks, idle_task, rw, lsock, socks, installs,
                   wire, stream, cid, sentlog, got, obj, nrec, term, res,
                   zombie, nops, igen, lastWrite, hist>>
    /\ UNCHANGED appvars

\* The server closes the connection, or it is reset, while a command
\* waits for its response (only a read observes when this happens).
ServerDrop(how) ==
    /\ ServerUp
    /\ \E t \in Threads : pc[t] = "read"
    /\ stream' = how
    /\ UNCHANGED <<pc, op, cur, locks, idle_task, rw, lsock, socks, installs,
                   wire, inbuf, sidle, cid, sentlog, got, obj, nrec, term,
                   res, zombie, nops, igen, lastWrite, hist>>
    /\ UNCHANGED appvars

----------------------------------------------------------------------------
ThreadStep(t) ==
    \/ Precheck(t)
    \/ LockAcquire(t)
    \/ LockWake(t)
    \/ NoidleBody(t)
    \/ SleepWake(t)
    \/ ChkConn(t)
    \/ ConnIn(t)
    \/ \E ok \in BOOLEAN : ConnOpen(t, ok)
    \/ \E b \in Banners : ConnBanner(t, b, FALSE)
    \/ ConnBanner(t, <<>>, TRUE)
    \/ Send(t)
    \/ ReadLine(t)
    \/ ReadEof(t)
    \/ ReadFails(t)

CallerStep(c) ==
    \/ \E o \in Ops : Request(c, o)
    \/ IdleIn(c)
    \/ IdleReturn(c)
    \/ Close(c)

ServerStep ==
    \/ ServerAnswer
    \/ ServerControl
    \/ ServerChange
    \/ \E how \in {"eof", "reset"} : ServerDrop(how)

Next ==
    \/ \E t \in Threads : ThreadStep(t)
    \/ \E t \in IdleTasks : TaskStart(t)
    \/ \E c \in Callers : CallerStep(c)
    \/ Finalize
    \/ ServerStep

Spec == Init /\ [][Next]_vars

----------------------------------------------------------------------------
\* The client with a well-behaved server and network: every connection
\* attempt succeeds, the server answers every command with a well-formed
\* response before any timeout, nothing closes the connection.  The event
\* loop runs every task that is ready (weak fairness of each task's steps)
\* and the server processes what it receives; callers need not make
\* further calls and the server need not see a subsystem change.
LiveThreadStep(t) ==
    \/ Precheck(t)
    \/ LockAcquire(t)
    \/ LockWake(t)
    \/ NoidleBody(t)
    \/ SleepWake(t)
    \/ ChkConn(t)
    \/ ConnIn(t)
    \/ ConnOpen(t, TRUE)
    \/ ConnBanner(t, <<"OK", "MPD", "0.20.0\n">>, FALSE)
    \/ Send(t)
    \/ ReadLine(t)

LiveCallerStep(c) == IdleIn(c) \/ IdleReturn(c)

LiveServerStep == ServerAnswerWith(TRUE) \/ ServerControl

LiveNext ==
    \/ \E t \in Threads : LiveThreadStep(t)
    \/ \E t \in IdleTasks : TaskStart(t)
    \/ \E c \in Callers : LiveCallerStep(c)
    \/ \E c \in Callers : \E o \in {"cmd", "tagged", "idle"} : Request(c, o)
    \/ LiveServerStep
    \/ ServerChange

LiveSpec ==
    /\ Init
    /\ [][LiveNext]_vars
    /\ \A t \in Threads : WF_vars(LiveThreadStep(t))
    /\ \A t \in IdleTasks : WF_vars(TaskStart(t))
    /\ \A c \in Callers : WF_vars(LiveCallerStep(c))
    /\ WF_vars(LiveServerStep)

----------------------------------------------------------------------------
\* The client with a server that answers well-formed responses when it
\* answers at all: it may stay silent for ever, so reads may time out.  The
\* event loop runs every ready task and fires every timer (weak fairness of
\* each task's steps); nothing is assumed of the server.
TimedThreadStep(t) ==
    \/ LiveThreadStep(t)
    \/ ReadFails(t)
    \/ ReadEof(t)

TimedNext ==
    \/ \E t \in Threads : TimedThreadStep(t)
    \/ \E t \in IdleTasks : TaskStart(t)
    \/ \E c \in Callers : LiveCallerStep(c)
    \/ \E c \in Callers : \E o \in {"cmd", "tagged", "idle"} : Request(c, o)
    \/ Finalize
    \/ LiveServerStep
    \/ ServerChange

TimedSpec ==
    /\ Init
    /\ [][TimedNext]_vars
    /\ \A t \in Threads : WF_vars(TimedThreadStep(t))
    /\ \A t \in IdleTasks : WF_vars(TaskStart(t))
    /\ \A c \in Callers : WF_vars(LiveCallerStep(c))

----------------------------------------------------------------------------
\* _run_tagged (mpd.py 146-162) over a response whose lines all hold ': ':
\* the grouping of the lines into records.

MaxLines == 4          \* lines of a parsed response

\* All sequences over S of length at most n.
SeqsUpTo(S, n) == UNION {[1..k -> S] : k \in 0..n}

\* A line is its text cut at every ': ' (so <<"Title", "x", "y">> is the
\* line 'Title: x: y').
LineKinds == {<<"file", "a">>, <<"File", "b">>, <<"Title", "x">>,
              <<"title", "y">>, <<"Title", "x", "y">>}
\* The start fields the client passes: 'file', and a listing's type_.
Types == {"file", "title"}
\* str.lower() on the keys that occur.
Lower(k) == CASE k = "File" -> "file" [] k = "Title" -> "title" [] OTHER -> k
\* line.split(': ', 1): the tag, and the rest of the line as the value.
Split1(l) == [tag |-> l[1], value |-> Tail(l)]

EmptyObj == [k \in {} |-> <<>>]
\* A dict assignment that kept the value a key already has.
PutFirst(o, k, v) ==
    [x \in DOMAIN o \cup {k} |-> IF x \in DOMAIN o THEN o[x] ELSE v]
\* obj[tag] = value (line 159).
Put(o, k, v) == [x \in DOMAIN o \cup {k} |-> IF x = k THEN v ELSE o[x]]
\* The test of line 155 without 'and obj'.
StartsRecordAlways(tag, o) == tag = tagged.type
\* Line 155: tag == type_ and obj.
StartsRecord(tag, o) == tag = tagged.type /\ DOMAIN o # {}

TaggedInit ==
    /\ ClientInit
    /\ tagged \in {[NoTagged EXCEPT !.type = t, !.lines = ls, !.obj = EmptyObj] :
                     t \in Types, ls \in SeqsUpTo(LineKinds, MaxLines)}
    /\ escaped = NoEscaped
    /\ ui = NoUi
    /\ enq = NoEnq
    /\ app = NoApp

\* One iteration of the async for (lines 151-159).
TaggedLine ==
    /\ tagged.type # ""
    /\ tagged.i < Len(tagged.lines)
    /\ LET l == Split1(tagged.lines[tagged.i + 1])
           tag == Lower(l.tag)
       IN IF StartsRecord(tag, tagged.obj)
          THEN tagged' = [tagged EXCEPT !.i = @ + 1,
                                        !.recs = Append(@, tagged.obj),
                                        !.obj = Put(EmptyObj, tag, l.value)]
          ELSE tagged' = [tagged EXCEPT !.i = @ + 1,
                                        !.obj = Put(@, tag, l.value)]
    /\ UNCHANGED <<mpdvars, escaped, ui, enq, app>>

\* The lines are exhausted (lines 161-162).
TaggedEnd ==
    /\ tagged.type # ""
    /\ tagged.i = Len(tagged.lines)
    /\ ~tagged.done
    /\ tagged' = [tagged EXCEPT !.done = TRUE,
                                !.recs = IF DOMAIN tagged.obj # {}
                                         THEN Append(@, tagged.obj) ELSE @]
    /\ UNCHANGED <<mpdvars, escaped, ui, enq, app>>

TaggedNext == TaggedLine \/ TaggedEnd

TaggedSpec == TaggedInit /\ [][TaggedNext]_vars

----------------------------------------------------------------------------
\* util.escape (util.py 8-27).

MaxStr == 4            \* characters of an escaped argument

\* The characters: the double quote, newline, carriage return, backslash
\* and an ordinary character.
Chars == {"QUOTE", "LF", "CR", "BSL", "a"}

\* A translation table that only drops newline and carriage return.
TranslateDropOnly(c) == IF c \in {"LF", "CR"} THEN <<>> ELSE <<c>>
\* ESCAPE_TRANSLATION (lines 8-12): what each character becomes.
TranslateChar(c) ==
    CASE c = "QUOTE" -> <<"BSL", "QUOTE">>
      [] c \in {"LF", "CR"} -> <<>>
      [] OTHER -> <<c>>
\* str.translate(ESCAPE_TRANSLATION) (line 26).
RECURSIVE Translate(_)
Translate(s) ==
    IF s = <<>> THEN <<>> ELSE TranslateChar(Head(s)) \o Translate(Tail(s))
\* escape (lines 25-27).
Escape(s) == <<"QUOTE">> \o Translate(s) \o <<"QUOTE">>

EscapeInit ==
    /\ ClientInit
    /\ escaped \in {[NoEscaped EXCEPT !.s = x] : x \in SeqsUpTo(Chars, MaxStr)}
    /\ tagged = NoTagged
    /\ ui = NoUi
    /\ enq = NoEnq
    /\ app = NoApp

\* escape(value) is called and returns.
EscapeCall ==
    /\ ~escaped.called
    /\ escaped' = [escaped EXCEPT !.out = Escape(escaped.s), !.called = TRUE]
    /\ UNCHANGED <<mpdvars, tagged, ui, enq, app>>

EscapeNext == EscapeCall

EscapeSpec == EscapeInit /\ [][EscapeNext]_vars

----------------------------------------------------------------------------
\* The incremental search of a list view: VimListBox (app.py 137-233),
\* CommandPrompt (app.py 98-133) and util.prefix_matches (util.py 30-48).

MaxRows == 3           \* rows of the list view
MaxText == 3           \* characters typed into the prompt

\* The characters of words and input, and str.lower() on them.
LowerChar(c) == CASE c = "A" -> "a" [] c = "B" -> "b" [] OTHER -> c
LowerWord(w) == [j \in DOMAIN w |-> LowerChar(w[j])]
\* The texts a row gives to the search (its artist and its album, app.py
\* 282-286), and the characters a user types.
RowWords == {<<<<"a">>, <<"A", "b">>>>, <<<<"b">>, <<"b", "a">>>>,
             <<<<"A", "b">>, <<"b">>>>, <<<<"a">>, <<"a">>>>}
TypedChars == {"a", "B"}
\* The lower-cased words in sorted() order.
AllWords == <<<<"a">>, <<"a", "b">>, <<"b">>, <<"b", "a">>>>
RECURSIVE Keep(_, _)
Keep(ws, S) ==
    IF ws = <<>> THEN <<>>
    ELSE (IF Head(ws) \in S THEN <<Head(ws)>> ELSE <<>>) \o Keep(Tail(ws), S)
\* sorted(words) for a set of lower-cased words.
Sorted(S) == Keep(AllWords, S)
\* sorted(set(ints)).
RECURSIVE SortedInts(_)
SortedInts(S) ==
    IF S = {} THEN <<>>
    ELSE LET m == CHOOSE x \in S : \A y \in S : x <= y
         IN <<m>> \o SortedInts(S \ {m})
Range(f) == {f[x] : x \in DOMAIN f}
Front(q) == SubSeq(q, 1, Len(q) - 1)

\* util._prefix_search's word test (lines 42-44).
StartsWithChar(w, c) == w # <<>> /\ w[1] = c
\* itertools.dropwhile / takewhile over the words (lines 41-47).
RECURSIVE DropWhileNot(_, _)
DropWhileNot(ws, c) ==
    IF ws = <<>> \/ StartsWithChar(Head(ws), c) THEN ws
    ELSE DropWhileNot(Tail(ws), c)
RECURSIVE TakeWhile(_, _)
TakeWhile(ws, c) ==
    IF ws = <<>> \/ ~StartsWithChar(Head(ws), c) THEN <<>>
    ELSE <<Head(ws)>> \o TakeWhile(Tail(ws), c)
\* util._prefix_search (lines 34-48).
RECURSIVE PrefixSearch(_, _, _)
PrefixSearch(prefix, suffix, words) ==
    IF words = <<>> THEN <<>>
    ELSE IF suffix = <<>> THEN [j \in DOMAIN words |-> prefix \o words[j]]
    ELSE LET matches == TakeWhile(DropWhileNot(words, suffix[1]), suffix[1])
             remaining == [j \in DOMAIN matches |-> Tail(matches[j])]
         IN PrefixSearch(Append(prefix, suffix[1]), Tail(suffix), remaining)
\* util.prefix_matches (lines 30-31).
PrefixMatches(prefix, words) == PrefixSearch(<<>>, prefix, words)

\* next(...) of line 216 with >= in place of >.
NextMatchInclusive(m, pos) ==
    LET J == {j \in DOMAIN m : m[j] >= pos}
    IN IF J = {} THEN m[1] ELSE m[CHOOSE j \in J : \A k \in J : j <= k]
\* VimListBox.next_search_match, lines 216-219: the first match after pos
\* in list order, else the first match.
NextMatch(m, pos) ==
    LET J == {j \in DOMAIN m : m[j] > pos}
    IN IF J = {} THEN m[1] ELSE m[CHOOSE j \in J : \A k \in J : j <= k]
\* VimListBox.prev_search_match, lines 227-230: the first match before pos
\* in reversed list order, else the last match.
PrevMatch(m, pos) ==
    LET J == {j \in DOMAIN m : m[j] < pos}
    IN IF J = {} THEN m[Len(m)] ELSE m[CHOOSE j \in J : \A k \in J : j >= k]

\* VimListBox.next_search_match / prev_search_match (lines 212-233).
NextSearchMatch(u) ==
    IF u.search_result = <<>> THEN u
    ELSE [u EXCEPT !.focus_position = NextMatch(u.search_result, u.focus_position)]
PrevSearchMatch(u) ==
    IF u.search_result = <<>> THEN u
    ELSE [u EXCEPT !.focus_position = PrevMatch(u.search_result, u.focus_position)]

\* VimListBox.search_keypress (lines 176-190).
SearchKeypress(u, value) ==
    IF Len(value) = Len(u.search_results)
    THEN [u EXCEPT !.error = "AssertionError"]
    ELSE IF Len(value) < Len(u.search_results)
    THEN [u EXCEPT !.search_results = Front(@)]
    ELSE LET words == IF u.search_results # <<>>
                      THEN u.search_results[Len(u.search_results)]
                      ELSE Sorted(DOMAIN u.search_contents)
         IN [u EXCEPT !.search_results =
                 Append(@, PrefixMatches(LowerWord(value), words))]

\* The indices of the first word of the final step only.
FoundIndicesOfFirst(u) ==
    LET words == u.search_results[Len(u.search_results)]
    IN IF words = <<>> THEN <<>> ELSE SortedInts(u.search_contents[words[1]])
\* search_complete, lines 197-200: the sorted set of the indices of every
\* word of the final step.
FoundIndices(u) ==
    LET words == u.search_results[Len(u.search_results)]
    IN SortedInts(UNION {u.search_contents[w] : w \in Range(words)})

\* VimListBox.search_complete (lines 192-210).
SearchComplete(u) ==
    IF u.search_results = <<>> THEN u
    ELSE LET found == FoundIndices(u)
             v == [u EXCEPT !.search_result = found, !.search_results = <<>>]
         IN IF found = <<>> THEN v ELSE NextSearchMatch(v)

\* The rows' (text, index) pairs grouped by lower-cased text (lines
\* 154-158); the indices start at 0.
SearchContents(lib) ==
    [w \in {LowerWord(lib[r][j]) : r \in DOMAIN lib, j \in 1..2} |->
        {r - 1 : r \in {q \in DOMAIN lib :
                           \E j \in 1..2 : LowerWord(lib[q][j]) = w}}]

\* The fields before a key, kept as history.
Before(u, key) ==
    [u EXCEPT !.last = key, !.prev_results = u.search_results,
              !.prev_focus = u.focus_position, !.prev_text = u.edit_text]

UiInit ==
    /\ ClientInit
    /\ ui \in {[NoUi EXCEPT !.library = lib] : lib \in [1..MaxRows -> RowWords]}
    /\ tagged = NoTagged
    /\ escaped = NoEscaped
    /\ enq = NoEnq
    /\ app = NoApp

\* VimListBox.keypress('/') (lines 153-165).
StartSearch ==
    /\ ui.library # <<>> /\ ui.error = "none" /\ ui.focus = "body"
    /\ ui' = [Before(ui, "/") EXCEPT
                 !.search_contents = SearchContents(ui.library),
                 !.focus = "footer"]
    /\ UNCHANGED <<mpdvars, tagged, escaped, enq, app>>

\* CommandPrompt.keypress of a printable character (lines 129-133): the
\* edit widget appends it, then the callback gets the text.
TypeChar(c) ==
    /\ ui.error = "none" /\ ui.focus = "footer"
    /\ Len(ui.edit_text) < MaxText
    /\ ui' = SearchKeypress([Before(ui, "char") EXCEPT !.edit_text = Append(@, c)],
                            Append(ui.edit_text, c))
    /\ UNCHANGED <<mpdvars, tagged, escaped, enq, app>>

\* CommandPrompt.keypress('backspace') (lines 129-133): the edit widget
\* deletes the last character, if any, then the callback gets the text.
Backspace ==
    /\ ui.error = "none" /\ ui.focus = "footer"
    /\ LET text == IF ui.edit_text = <<>> THEN <<>> ELSE Front(ui.edit_text)
       IN ui' = SearchKeypress([Before(ui, "backspace") EXCEPT !.edit_text = text],
                               text)
    /\ UNCHANGED <<mpdvars, tagged, escaped, enq, app>>

\* CommandPrompt.keypress('esc') (lines 121-123) and clear (106-109).
Esc ==
    /\ ui.error = "none" /\ ui.focus = "footer"
    /\ ui' = [Before(ui, "esc") EXCEPT !.focus = "body", !.edit_text = <<>>]
    /\ UNCHANGED <<mpdvars, tagged, escaped, enq, app>>

\* CommandPrompt.keypress('enter') (lines 124-127).
Enter ==
    /\ ui.error = "none" /\ ui.focus = "footer"
    /\ ui' = [SearchComplete([Before(ui, "enter") EXCEPT !.focus = "body"])
                 EXCEPT !.edit_text = <<>>]
    /\ UNCHANGED <<mpdvars, tagged, escaped, enq, app>>

\* VimListBox.keypress('n') / ('N') (lines 166-169).
NextKey ==
    /\ ui.library # <<>> /\ ui.error = "none" /\ ui.focus = "body"
    /\ ui' = NextSearchMatch(Before(ui, "n"))
    /\ UNCHANGED <<mpdvars, tagged, escaped, enq, app>>
PrevKey ==
    /\ ui.library # <<>> /\ ui.error = "none" /\ ui.focus = "body"
    /\ ui' = PrevSearchMatch(Before(ui, "N"))
    /\ UNCHANGED <<mpdvars, tagged, escaped, enq, app>>

\* VimListBox.keypress of a movement key (lines 170-171): the list box
\* moves the focus to another row.
Move(p) ==
    /\ ui.library # <<>> /\ ui.error = "none" /\ ui.focus = "body"
    /\ p # ui.focus_position
    /\ ui' = [Before(ui, "move") EXCEPT !.focus_position = p]
    /\ UNCHANGED <<mpdvars, tagged, escaped, enq, app>>

UiNext ==
    \/ StartSearch
    \/ \E c \in TypedChars : TypeChar(c)
    \/ Backspace
    \/ Esc
    \/ Enter
    \/ NextKey
    \/ PrevKey
    \/ \E p \in 0..(MaxRows - 1) : Move(p)

UiSpec == UiInit /\ [][UiNext]_vars

\* VimListBox.search_keypress as a function of its argument (lines
\* 176-190): a caller hands it any text; edit_text keeps the previous one.
KeypressCall(value) ==
    /\ ui.error = "none" /\ ui.focus = "footer"
    /\ ui' = SearchKeypress([Before(ui, "call") EXCEPT !.edit_text = value], value)
    /\ UNCHANGED <<mpdvars, tagged, escaped, enq, app>>

KeypressNext ==
    \/ StartSearch
    \/ \E value \in SeqsUpTo(TypedChars, MaxText) : KeypressCall(value)
    \/ Enter

KeypressSpec == UiInit /\ [][KeypressNext]_vars

----------------------------------------------------------------------------
\* LibraryAlbum.enqueue (app.py 251-269) over the client's searchadd,
\* playlistsearch and playid (mpd.py 210-230).

MaxTracks == 4         \* queue entries playlistsearch returns
\* The Id of the first returned entry; the entries' Ids follow it.
FirstIds == {1, 8}
\* A returned entry's Title line: one of two titles, or no such line.
Titles == {"x", "y", "absent"}

\* The decimal text of an Id on the wire and int() of it (line 269).
DigitChars == <<"0", "1", "2", "3", "4", "5", "6", "7", "8", "9">>
IdStr(n) ==
    IF n < 10 THEN <<DigitChars[n + 1]>>
    ELSE <<DigitChars[(n \div 10) + 1], DigitChars[(n % 10) + 1]>>
DigitOf(c) == CHOOSE d \in 0..9 : DigitChars[d + 1] = c
RECURSIVE ParseInt(_)
ParseInt(str) ==
    IF str = <<>> THEN 0
    ELSE 10 * ParseInt(Front(str)) + DigitOf(str[Len(str)])

\* A record of _run_tagged(command, 'file') (mpd.py 219-227): the keys are
\* those of the entry's lines, lower-cased.
Track(i, first, title) ==
    IF title = "absent"
    THEN [file |-> i, id |-> IdStr(first + i - 1)]
    ELSE [file |-> i, id |-> IdStr(first + i - 1), title |-> title]
TracksOf(first, titles) == [i \in DOMAIN titles |-> Track(i, first, titles[i])]

\* next(track['id'] for track in reversed(tracks)
\*      if track['title'] == first['title']) (lines 265-268), from entry k
\* down: a record without the key raises KeyError.
RECURSIVE ScanReversed(_, _)
ScanReversed(tracks, k) ==
    IF k = 0 THEN [error |-> "StopIteration", id |-> <<>>]
    ELSE IF "title" \notin DOMAIN tracks[k] \/ "title" \notin DOMAIN tracks[1]
    THEN [error |-> "KeyError", id |-> <<>>]
    ELSE IF tracks[k].title = tracks[1].title
    THEN [error |-> "none", id |-> tracks[k].id]
    ELSE ScanReversed(tracks, k - 1)

EnqueueInit ==
    /\ ClientInit
    /\ tagged = NoTagged
    /\ escaped = NoEscaped
    /\ ui = NoUi
    /\ enq = NoEnq
    /\ app = NoApp

\* LibraryAlbum.keypress (lines 246-248): enter plays, space only enqueues.
EnqueueStart(play) ==
    /\ enq.pcq = "rest"
    /\ enq' = [enq EXCEPT !.play = play, !.pcq = "searchadd"]
    /\ UNCHANGED <<mpdvars, tagged, escaped, ui, app>>

\* await client.searchadd(...) (line 257) and the test of play (259).
EnqueueSearchAdd ==
    /\ enq.pcq = "searchadd"
    /\ enq' = [enq EXCEPT !.sent = Append(@, <<"searchadd">>),
                          !.pcq = IF enq.play THEN "playlistsearch" ELSE "done"]
    /\ UNCHANGED <<mpdvars, tagged, escaped, ui, app>>

\* Lines 260-268: the entries are read, an empty list raises ValueError,
\* else the Id to play is looked up.
EnqueueSearch(first, titles) ==
    /\ enq.pcq = "playlistsearch"
    /\ LET tracks == TracksOf(first, titles)
           r == ScanReversed(tracks, Len(tracks))
           e == [enq EXCEPT !.sent = Append(@, <<"playlistsearch">>),
                            !.tracks = tracks]
       IN enq' = IF tracks = <<>>
                 THEN [e EXCEPT !.error = "ValueError", !.pcq = "done"]
                 ELSE IF r.error # "none"
                 THEN [e EXCEPT !.error = r.error, !.pcq = "done"]
                 ELSE [e EXCEPT !.found = r.id, !.pcq = "playid"]
    /\ UNCHANGED <<mpdvars, tagged, escaped, ui, app>>

\* await client.playid(int(last_track_id)) (line 269; mpd.py 229-230).
EnqueuePlayId ==
    /\ enq.pcq = "playid"
    /\ enq' = [enq EXCEPT !.sent = Append(@, <<"playid", ParseInt(enq.found)>>),
                          !.pcq = "done"]
    /\ UNCHANGED <<mpdvars, tagged, escaped, ui, app>>

EnqueueNext ==
    \/ \E play \in BOOLEAN : EnqueueStart(play)
    \/ EnqueueSearchAdd
    \/ \E first \in FirstIds, titles \in SeqsUpTo(Titles, MaxTracks) :
           EnqueueSearch(first, titles)
    \/ EnqueuePlayId

EnqueueSpec == EnqueueInit /\ [][EnqueueNext]_vars

----------------------------------------------------------------------------
\* The claims.

\* C1: at most one command is in flight on the connection: a command (or
\* close's 'close') is never written while another command has been written
\* and its terminating OK/ACK line has not been read; only 'noidle' may be.
C1_OneCommandInFlight ==
    (lastWrite.k \notin {"none", "noidle"} /\ ~lastWrite.dead)
        => lastWrite.pend = {}

\* C2: an ordinary command requested while an idle wait is pending
\* (_idle_task is set) is written only after 'noidle' was written, after
\* that wait's marker was cleared, and never while an idle command's
\* terminating line is unread.
C2_CancelBeforeCommand ==
    \A c \in Callers :
        (hist[c].req # 0 /\ hist[c].sent)
            => (hist[c].noidle /\ hist[c].cleared /\ ~hist[c].unread)

\* C3: with a well-behaved server and a fair event loop, every ordinary
\* command requested while an idle wait is pending eventually has its bytes
\* sent and its response observed by its caller.
C3_PreemptionCompletes ==
    \A c \in Callers :
        (op[c] \in {"cmd", "tagged"} /\ pc[c] # "rest" /\ hist[c].req # 0)
            ~> (pc[c] = "rest" /\ hist[c].sent /\ res[c].k \in {"ok", "MPDError"})

\* C4: every line a command yields to its caller, and the terminator it
\* stops at, were sent by the server in reply to that same command.
C4_OwnResponseOnly ==
    \A t \in Threads :
        /\ \A l \in got[t] \ {EofLine} : l.of = cid[t]
        /\ term[t] \in {0, cid[t]}

\* C5: at most one handshake is in progress and at most one connection is
\* ever installed, however many commands and connect() calls start on a
\* disconnected client; nothing is written before a handshake succeeded; a
\* connect() on a connected client opens nothing and returns the client.
Handshaking == {t \in Threads : pc[t] \in {"conn_open", "conn_banner"}}
C5_OneConnection ==
    /\ Cardinality(Handshaking) <= 1
    /\ installs <= 1
    /\ rw # 0 => Handshaking = {}
    /\ lastWrite.k # "none" =>
          lastWrite.sock # 0 /\ BannerOk(socks[lastWrite.sock].first)
    /\ \A c \in Callers :
          (op[c] = "connect" /\ res[c].k = "ok") => (rw # 0 /\ lsock[c] = 0)
\* A connect() that queued behind another caller's handshake runs, finds
\* the client connected, while that caller waits to send its command.
C5_Witness ==
    \E a, b \in Callers :
        /\ a # b
        /\ op[a] \in {"cmd", "tagged"} /\ pc[a] = "cmd_wait"
        /\ op[b] = "connect" /\ pc[b] = "conn_in"
        /\ rw # 0 /\ installs = 1

\* C6: when a command has exited by any path, its thread no longer holds
\* the command lock; when idle() has exited, its caller no longer holds the
\* idle lock and _idle_task no longer names its task.
Exited(t) == pc[t] \in {"rest", "tdone", "off"} /\ res[t].k # "none"
C6_LocksReleasedOnExit ==
    /\ \A t \in Threads : Exited(t) => locks["lock"].holder # t
    /\ \A c \in Callers :
          (Exited(c) /\ op[c] = "idle") =>
              (locks["idle"].holder # c /\ idle_task # TaskOf(c))

\* C7: a handshake ends in success only on a first line that starts with
\* 'OK MPD '; when the connection cannot be opened, the stream ends with no
\* data or the first line has another prefix, it ends with a ConnectionError,
\* the attempt's socket closed, no reader/writer installed and _lock free.
HandshakeEnds(t) ==
    pc[t] \in {"conn_open", "conn_banner"}
        /\ pc'[t] \notin {"conn_open", "conn_banner"}
IsMpdBanner(b) == Len(b) >= 3 /\ b[1] = "OK" /\ b[2] = "MPD"
C7_HandshakeOutcome ==
    [][\A t \in Threads : HandshakeEnds(t) =>
          /\ locks'["lock"].holder = 0
          /\ lsock'[t] = 0
          /\ IF res'[t].k \in {"ConnectionError", "TimeoutError"}
             THEN /\ rw' = 0
                  /\ \A i \in DOMAIN socks' : socks'[i].closed
                  /\ pc'[t] \in {"rest", "tdone"}
             ELSE /\ rw' = lsock[t] /\ rw' # 0
                  /\ ~socks'[rw'].closed
                  /\ IsMpdBanner(socks'[rw'].first)
          /\ IF pc[t] = "conn_banner" /\ ~socks'[lsock[t]].timedout
             THEN IF IsMpdBanner(socks'[lsock[t]].first)
                  THEN res'[t].k \in {"none", "ok"}
                  ELSE res'[t].k = "ConnectionError"
             ELSE res'[t].k = IF pc[t] = "conn_open"
                              THEN "ConnectionError" ELSE "TimeoutError"
      ]_vars
\* A handshake has failed on a first line with another prefix, and one on
\* a stream that ended with no data.
C7_Witness ==
    /\ \E t \in Threads : res[t].k = "ConnectionError" /\ pc[t] = "rest"
    /\ Len(socks) = 2 /\ rw = 0
    /\ socks[1].closed /\ socks[2].closed
    /\ {socks[1].first, socks[2].first} = {<<>>, <<"welkrjewlkj\n">>}

\* C8: a command that reads a line beginning 'ACK ' fails with an error
\* carrying the server's message, is delivered nothing more, and leaves
\* the connection installed and _lock free; when the ACK answers that
\* command, nothing of its response is left for the next command.
ReadsAck(t) == pc[t] = "read" /\ res'[t].k = "MPDError"
C8_AckHandling ==
    [][\A t \in Threads : ReadsAck(t) =>
          /\ res'[t].m = <<"no", "song\n">>
          /\ got'[t] = got[t] /\ nrec'[t] = nrec[t]
          /\ pc'[t] \in {"rest", "tdone"}
          /\ rw' = rw /\ rw' # 0 /\ socks' = socks
          /\ locks'["lock"].holder = 0 /\ zombie' # t
          /\ term'[t] = cid[t] => (inbuf' = <<>> /\ Outstanding' = {})
      ]_vars
\* One command failed with the server's ACK, and a later command on the
\* same connection has read its own response to the end.
C8_Witness ==
    \E a, b \in Callers :
        /\ res[a].k = "MPDError" /\ term[a] = cid[a] /\ pc[a] = "rest"
        /\ res[b].k = "ok" /\ term[b] = cid[b] /\ pc[b] = "rest"
        /\ cid[b] > cid[a] /\ cid[a] > 0
        /\ \A l \in got[b] : l.of = cid[b]
        /\ installs = 1

\* C9: a command whose stream reached end of file ends there: no line
\* read at end of file is ever yielded to its consumer.
C9_EofEndsCommand == \A t \in Threads : EofLine \notin got[t]

\* C10: an installed connection is never a closed one (close() and I/O
\* errors leave the client disconnected), and nothing is written to a
\* closed or reset connection.
C10_ReconnectAfterClose ==
    /\ rw # 0 => ~socks[rw].closed
    /\ ~lastWrite.dead

\* C11: a sent ordinary command whose stream stays open always ends, even
\* if the server sends nothing more; a read that times out fails its own
\* command with the timeout error, leaves the connection installed and
\* _lock free; the idle command never times out.
TimesOut(t) == pc[t] = "read" /\ res'[t].k = "Timeout"
Ordinary(c) == op[c] \in {"cmd", "tagged"}
C12_RequestOrder ==
    igen = 0 =>
        \A a, b \in Callers :
            (/\ Ordinary(a) /\ Ordinary(b)
             /\ hist[a].seq < hist[b].seq
             /\ cid[b] # 0
             /\ (cid[a] # 0 \/ pc[a] # "rest"))
                => (cid[a] # 0 /\ cid[a] < cid[b])

\* C13 (as stated): the number of records the parser produces equals the
\* number of lines whose lower-cased key is the start field.
StartLines ==
    {j \in DOMAIN tagged.lines : Lower(tagged.lines[j][1]) = tagged.type}
C13_CountIsStartLines ==
    tagged.done => Len(tagged.recs) = Cardinality(StartLines)
\* C13 (amended): the number of records equals the number of start-field
\* lines, plus one when the response is not empty and its first line is not
\* a start-field line.
C13_RecordCount ==
    tagged.done =>
        Len(tagged.recs) = Cardinality(StartLines)
            + (IF tagged.lines # <<>> /\ 1 \notin StartLines THEN 1 ELSE 0)
\* A parsed response that holds start-field lines but begins with another
\* line.
C13_Witness ==
    /\ tagged.done
    /\ Cardinality(StartLines) = 2
    /\ 1 \notin StartLines
    /\ Len(tagged.recs) = 3

\* C14: a response of N >= 0 well-formed records (empty, or beginning with
\* the start field) is parsed into exactly N records in the original order,
\* each holding exactly its lines' fields under lower-cased keys with the
\* last value of a repeated key (so the last accumulator is emitted exactly
\* once); no record is ever empty.
WellFormed == tagged.lines = <<>> \/ 1 \in StartLines
NthStart(n) ==
    CHOOSE j \in StartLines : Cardinality({i \in StartLines : i <= j}) = n
LastLineOf(j) ==
    LET later == {k \in StartLines : k > j}
    IN IF later = {} THEN Len(tagged.lines)
       ELSE (CHOOSE k \in later : \A m \in later : k <= m) - 1
FieldsOf(a, b) ==
    [k \in {Lower(tagged.lines[j][1]) : j \in a..b} |->
        LET at == {j \in a..b : Lower(tagged.lines[j][1]) = k}
        IN Tail(tagged.lines[CHOOSE j \in at : \A m \in at : m <= j])]
C14_WellFormedRoundTrip ==
    /\ \A n \in DOMAIN tagged.recs : DOMAIN tagged.recs[n] # {}
    /\ (tagged.done /\ WellFormed) =>
          /\ Len(tagged.recs) = Cardinality(StartLines)
          /\ \A n \in DOMAIN tagged.recs :
                tagged.recs[n] = FieldsOf(NthStart(n), LastLineOf(NthStart(n)))
\* Two records have been parsed, the first with a repeated key.
C14_Witness ==
    /\ tagged.done
    /\ tagged.type = "file"
    /\ tagged.lines = <<<<"file", "a">>, <<"Title", "x">>, <<"title", "y">>,
                        <<"File", "b">>>>
    /\ Len(tagged.recs) = 2
    /\ tagged.recs[1]["title"] = <<"y">>

\* C15: escape(s) is wrapped in double quotes, holds no newline or
\* carriage return, and unescaping it (dropping the outer quotes, then
\* turning each backslash-quote into a quote) gives s without its newlines
\* and carriage returns.
RECURSIVE UnquoteAll(_)
UnquoteAll(e) ==
    IF e = <<>> THEN <<>>
    ELSE IF Len(e) >= 2 /\ e[1] = "BSL" /\ e[2] = "QUOTE"
    THEN <<"QUOTE">> \o UnquoteAll(SubSeq(e, 3, Len(e)))
    ELSE <<Head(e)>> \o UnquoteAll(Tail(e))
Unescape(e) == UnquoteAll(SubSeq(e, 2, Len(e) - 1))
IsLineEnd(c) == c \in {"LF", "CR"}
NotLineEnd(c) == ~IsLineEnd(c)
C15_EscapeRoundTrip ==
    escaped.called =>
        /\ Len(escaped.out) >= 2
        /\ Head(escaped.out) = "QUOTE"
        /\ escaped.out[Len(escaped.out)] = "QUOTE"
        /\ \A j \in DOMAIN escaped.out : NotLineEnd(escaped.out[j])
        /\ Unescape(escaped.out) = SelectSeq(escaped.s, NotLineEnd)
\* A string with a backslash before a quote, a newline and an ordinary
\* character has been escaped.
C15_Witness ==
    /\ escaped.called
    /\ escaped.s = <<"BSL", "QUOTE", "LF", "a">>
    /\ escaped.out = <<"QUOTE", "BSL", "BSL", "QUOTE", "a", "QUOTE">>


\* C16: deleting a character is a pure undo: a backspace that directly
\* follows a typed character leaves the sequence of narrowing steps (and so
\* the current candidate set, its last element) exactly as it was before
\* that character was typed.
C16_BackspaceIsUndo ==
    [][(ui.last = "char" /\ ui.error = "none" /\ ui'.last = "backspace")
          => (ui'.error = "none" /\ ui'.search_results = ui.prev_results)]_vars

\* C17: after esc or enter in the prompt the list view's sequence of
\* narrowing steps is empty.
C17_StepsClearedOnExit ==
    ui.last \in {"esc", "enter"} => ui.search_results = <<>>

\* The match index set, and the claim's next and previous index in it.
Matches == Range(ui.search_result)
Smallest(S) == CHOOSE x \in S : \A y \in S : x <= y
Largest(S) == CHOOSE x \in S : \A y \in S : x >= y
After(pos) == {i \in Matches : i > pos}
Under(pos) == {i \in Matches : i < pos}

\* C19: 'n' moves to the smallest match index greater than the position, or
\* to the smallest match index if none is greater; 'N' moves to the largest
\* match index smaller than the position, or to the largest if none is
\* smaller; with no matches both leave the position where it was.
C19_NextPrevMatch ==
    [][/\ ui'.last = "n" =>
            ui'.focus_position =
                IF Matches = {} THEN ui.focus_position
                ELSE IF After(ui.focus_position) # {}
                THEN Smallest(After(ui.focus_position))
                ELSE Smallest(Matches)
       /\ ui'.last = "N" =>
            ui'.focus_position =
                IF Matches = {} THEN ui.focus_position
                ELSE IF Under(ui.focus_position) # {}
                THEN Largest(Under(ui.focus_position))
                ELSE Largest(Matches)]_vars
\* 'n' on the last of several matches has wrapped to the first one.
C19_Witness ==
    /\ ui.last = "n"
    /\ Len(ui.search_result) >= 2
    /\ ui.prev_focus = ui.search_result[Len(ui.search_result)]
    /\ ui.focus_position = ui.search_result[1]


\* C18: a call of search_keypress whose input differs in length from the
\* previous input by anything other than +1 or -1 is rejected, and neither
\* pushes nor pops a step.
C18_RejectsOtherDeltas ==
    [][(/\ ui'.last = "call"
        /\ Len(ui'.edit_text) - Len(ui.edit_text) \notin {1, -1})
          => (/\ ui'.error = "AssertionError"
              /\ ui'.search_results = ui.search_results)]_vars


\* The play commands a run of enqueue has issued.
Plays == {j \in DOMAIN enq.sent : enq.sent[j][1] = "playid"}
\* The entries whose title is the first entry's, by queue position.
SameTitle ==
    {k \in DOMAIN enq.tracks :
        /\ "title" \in DOMAIN enq.tracks[k]
        /\ enq.tracks[k].title = enq.tracks[1].title}
\* The numeric Id of the entry at queue position k.
IdAt(k) == CHOOSE n \in 1..99 : IdStr(n) = enq.tracks[k].id

\* C20: when enqueue-and-play has finished, the entry played is the last
\* one in queue order whose title equals the first returned entry's title,
\* which exists whenever an entry was returned (the first entry carrying a
\* title); an empty result is an error and no play command is issued.
C20_PlaysLastSameTitle ==
    (enq.play /\ enq.pcq = "done") =>
        IF enq.tracks = <<>>
        THEN enq.error = "ValueError" /\ Plays = {}
        ELSE "title" \in DOMAIN enq.tracks[1] =>
               /\ enq.error = "none"
               /\ enq.sent[Len(enq.sent)] = <<"playid", IdAt(Largest(SameTitle))>>
               /\ Cardinality(Plays) = 1


\* C21: when the server accepts the connection and no first line arrives
\* within the handshake timeout, connect() fails with the ConnectionError of
\* a banner mismatch, the attempt's socket is closed and the client stays
\* disconnected.
BannerTimesOut(t) ==
    /\ pc[t] = "conn_banner"
    /\ ~socks[lsock[t]].timedout
    /\ socks'[lsock[t]].timedout
C21_BannerTimeout ==
    [][\A t \in Threads : BannerTimesOut(t) =>
          /\ res'[t].k = "ConnectionError"
          /\ socks'[lsock[t]].closed
          /\ rw' = 0
      ]_vars


\* C22: 'noidle' is written only to an installed connection on which an
\* 'idle' command has been written and awaits its terminating line, and on
\* which no ordinary command's terminating line is outstanding.
C22_NoidleOnlyDuringIdle ==
    lastWrite.k = "noidle" =>
        /\ lastWrite.sock # 0 /\ ~lastWrite.dead
        /\ \E i \in lastWrite.pend : sentlog[i].k = "idle"
        /\ \A i \in lastWrite.pend : sentlog[i].k = "idle"


\* The step a typed character has pushed, the words it narrowed (the step
\* before it, or all lower-cased words for the first step), and the offset
\* and the character typed.
Pushes ==
    ui'.last = "char" /\ Len(ui'.search_results) = Len(ui.search_results) + 1
PushedStep == Range(ui'.search_results[Len(ui'.search_results)])
NarrowedStep ==
    IF ui.search_results = <<>> THEN DOMAIN ui'.search_contents
    ELSE Range(ui.search_results[Len(ui.search_results)])
TypedOffset == Len(ui'.edit_text)
TypedChar == ui'.edit_text[TypedOffset]

\* C23: a step pushed by typing a character holds exactly the words of the
\* step before it (of all lower-cased words for the first step) whose
\* character at the typed offset is the typed character, compared without
\* case; so it is a subset of the step before it, and empty if that is.
C23_StepNarrows ==
    [][Pushes =>
          /\ PushedStep =
                {w \in NarrowedStep :
                    Len(w) >= TypedOffset /\ w[TypedOffset] = LowerChar(TypedChar)}
          /\ PushedStep \subseteq NarrowedStep
          /\ NarrowedStep = {} => PushedStep = {}
      ]_vars


\* The indices the words of a step point to.
IndicesOf(step) == UNION {ui.search_contents[w] : w \in Range(step)}
Ascending(q) == \A i, j \in DOMAIN q : i < j => q[i] < q[j]

\* C24: enter with at least one step makes the match list the ascending,
\* duplicate-free union of the index sets of the final step's words and
\* clears the steps; an empty final step gives an empty match list, no
\* error and the same focus position; enter with no step leaves the match
\* list as it was.
C24_Completion ==
    [][ui'.last = "enter" =>
          IF ui.search_results # <<>>
          THEN LET final == ui.search_results[Len(ui.search_results)]
               IN /\ Range(ui'.search_result) = IndicesOf(final)
                  /\ Ascending(ui'.search_result)
                  /\ ui'.search_results = <<>>
                  /\ ui'.error = "none"
                  /\ final = <<>> =>
                        /\ ui'.search_result = <<>>
                        /\ ui'.focus_position = ui.focus_position
          ELSE ui'.search_result = ui.search_result /\ ui'.error = "none"
      ]_vars
\* A search has completed on words that share a row: the match list holds
\* fewer indices than the words' index sets together.
C24_Witness ==
    /\ ui.last = "enter"
    /\ ui.prev_results # <<>>
    /\ LET final == ui.prev_results[Len(ui.prev_results)]
       IN /\ Len(final) >= 2
          /\ \E i, j \in DOMAIN final :
                i # j /\ ui.search_contents[final[i]] \cap ui.search_contents[final[j]] # {}
          /\ Range(ui.search_result) = IndicesOf(final)
          /\ Len(ui.search_result) >= 2


\* C27: at most one 'noidle' is written for one idle wait, however many
\* ordinary commands are requested while it is pending.
C27_OneNoidlePerWait == lastWrite.n <= 1
\* A 'noidle' has been written for a wait while two more commands were
\* waiting for _noidle_lock, and all of them have gone on past the wait.
C27_Witness ==
    /\ lastWrite.n = 1 /\ lastWrite.ngen = igen /\ idle_task = 0
    /\ \A c \in Callers : hist[c].noidle => pc[c] \notin {"noidle_wait", "noidle_in",
                                                         "noidle_poll"}
    /\ Cardinality({c \in Callers : Ordinary(c) /\ hist[c].req = igen
                                      /\ hist[c].noidle}) >= 2

\* The idle command of caller c's last idle() was ended by the server on a
\* 'noidle', and the idle task has read the terminating line of that.
Canceled(c) ==
    /\ op[c] = "idle" /\ cid[TaskOf(c)] # 0
    /\ sentlog[cid[TaskOf(c)]].cancelled
    /\ term[TaskOf(c)] = cid[TaskOf(c)]

\* C25: an idle() whose wait was canceled by 'noidle' returns normally with
\* an empty list of changed subsystems; the command that wrote the 'noidle'
\* gets no error from the cancellation: once the wait is gone it goes on
\* to its own command.
C25_CancelIsNotAnError ==
    /\ [](\A c \in Callers : Canceled(c) =>
            /\ res[TaskOf(c)].k = "ok"
            /\ nrec[TaskOf(c)] = 0 /\ got[TaskOf(c)] = {}
            /\ (pc[c] = "rest" /\ res[c].k # "none") => res[c].k = "ok")
    /\ [][\A t \in Threads :
            (pc[t] = "noidle_poll" /\ pc'[t] # "noidle_poll")
                => (pc'[t] = "chk_conn" /\ res'[t] = res[t] /\ idle_task' = 0)
         ]_vars
\* An idle() has returned after its wait was canceled, and the command
\* that wrote the 'noidle' has then read its own response to the end.
C25_Witness ==
    \E c, b \in Callers :
        /\ Canceled(c) /\ pc[c] = "rest" /\ res[c].k = "ok"
        /\ Ordinary(b) /\ hist[b].req # 0 /\ hist[b].noidle
        /\ pc[b] = "rest" /\ res[b].k = "ok" /\ term[b] = cid[b] /\ cid[b] # 0
        /\ lastWrite.n = 1


\* C26: _idle_task is set only while an idle() call holds _idle_lock and
\* awaits that task; at most one idle task exists at any time, however many
\* idle() calls are in progress; _idle_task is None whenever no idle() call
\* is inside _idle_lock.
C26_IdleMarker ==
    /\ idle_task # 0 =>
          /\ idle_task \in IdleTasks
          /\ locks["idle"].holder = CallerOf(idle_task)
          /\ pc[CallerOf(idle_task)] = "idle_await"
    /\ Cardinality({t \in IdleTasks : pc[t] # "off"}) <= 1
    /\ (\A c \in Callers : pc[c] \notin {"idle_in", "idle_await"}) => idle_task = 0
\* A second idle() waits for _idle_lock while the first one's wait is
\* pending, after an earlier idle() has ended with an error.
C26_Witness ==
    \E a, b, c \in Callers :
        /\ pc[a] = "idle_await" /\ idle_task = TaskOf(a)
        /\ pc[b] = "idle_wait"
        /\ op[c] = "idle" /\ pc[c] = "rest" /\ res[c].k \notin {"none", "ok"}


\* C29: over any sequence of prompt keys, in one search or several, the
\* assertion of search_keypress never fails, and after every
\* search_keypress the number of steps is the length of the text.
C29_StepsMatchText ==
    /\ ui.error # "AssertionError"
    /\ ui.last \in {"char", "backspace"} =>
          Len(ui.search_results) = Len(ui.edit_text)

----------------------------------------------------------------------------
\* Application.async_mpd (app.py lines 541-550): the application's client is
\* made on first use. The outer test (542) runs without the lock, the inner
\* one (544) under mpd_lock; the only suspension points are the wait for a
\* contended mpd_lock and the await of connect().

\* Calls of async_mpd per coroutine.
MaxCalls == 2

\* A re-check that always finds no client.
NoClientAlways == TRUE
\* Line 544, 'if not self.mpd', under the lock.
NoClient == app.mpd = 0

\* Lines 545-548 up to the await: a new MPDClient, its connect() started.
\* Otherwise (line 544 false) the lock is released and line 550 returns
\* self.mpd.
UnderLock(a, queued) ==
    IF NoClient
    THEN app' = [app EXCEPT !.mpd_lock = [holder |-> a, waiters |-> queued],
                            !.at[a] = "connect",
                            !.made = @ + 1,
                            !.client[a] = app.made + 1]
    ELSE app' = [app EXCEPT !.mpd_lock = [holder |-> 0, waiters |-> queued],
                            !.at[a] = "rest",
                            !.ret[a] = app.mpd,
                            !.calls[a] = @ + 1]

\* A call of async_mpd up to its first suspension: with a client installed
\* it returns it (542, 550); with mpd_lock free and nobody queued it takes
\* the lock without suspending; otherwise it queues for the lock.
AsyncMpd(a) ==
    /\ app.at[a] = "rest"
    /\ app.calls[a] < MaxCalls
    /\ IF app.mpd # 0
       THEN app' = [app EXCEPT !.ret[a] = app.mpd, !.calls[a] = @ + 1]
       ELSE IF app.mpd_lock = FreeLock
            THEN UnderLock(a, <<>>)
            ELSE app' = [app EXCEPT !.at[a] = "acquire",
                                    !.mpd_lock.waiters = Append(@, a),
                                    !.queued = @ \cup {a}]
    /\ UNCHANGED <<mpdvars, tagged, escaped, ui, enq>>

\* The first waiter of the released mpd_lock runs: it holds the lock and
\* goes on at line 544.
Acquired(a) ==
    /\ app.at[a] = "acquire"
    /\ app.mpd_lock.holder = 0
    /\ app.mpd_lock.waiters # <<>>
    /\ Head(app.mpd_lock.waiters) = a
    /\ UnderLock(a, Tail(app.mpd_lock.waiters))
    /\ UNCHANGED <<mpdvars, tagged, escaped, ui, enq>>

\* connect() returns the client (mpd.py line 88, after installing the
\* streams): line 545 assigns it, the lock is released, line 550 returns
\* self.mpd.
ConnectReturns(a) ==
    /\ app.at[a] = "connect"
    /\ app' = [app EXCEPT !.mpd = app.client[a],
                          !.installed = Append(@, app.client[a]),
                          !.connected = @ \cup {app.client[a]},
                          !.mpd_lock.holder = 0,
                          !.at[a] = "rest",
                          !.client[a] = 0,
                          !.ret[a] = app.client[a],
                          !.calls[a] = @ + 1]
    /\ UNCHANGED <<mpdvars, tagged, escaped, ui, enq>>

\* connect() raises (mpd.py lines 72-83, or the open or the banner's wait
\* fails): nothing is assigned, 'async with' releases the lock and the
\* exception leaves async_mpd.
ConnectRaises(a) ==
    /\ app.at[a] = "connect"
    /\ app' = [app EXCEPT !.mpd_lock.holder = 0,
                          !.at[a] = "rest",
                          !.client[a] = 0,
                          !.ret[a] = -1,
                          !.calls[a] = @ + 1]
    /\ UNCHANGED <<mpdvars, tagged, escaped, ui, enq>>

AppInit ==
    /\ ClientInit
    /\ tagged = NoTagged
    /\ escaped = NoEscaped
    /\ ui = NoUi
    /\ enq = NoEnq
    /\ app = NoApp

AppNext ==
    \E a \in AppTasks :
        \/ AsyncMpd(a)
        \/ Acquired(a)
        \/ ConnectReturns(a)
        \/ ConnectRaises(a)

AppSpec == AppInit /\ [][AppNext]_vars

\* C28: over every interleaving of the callers of async_mpd, at most one
\* MPDClient is ever assigned to the application's mpd; the installed client
\* is one whose connect() returned; every call that returned a value returned
\* the installed client; a call never returns None. When a connect attempt
\* fails, no client is installed by it and the lock is free again, and every
\* pass under the lock that finds no client starts a connect on a new
\* MPDClient.
C28_OneClient ==
    /\ [](/\ Len(app.installed) <= 1
          /\ app.mpd # 0 => (app.mpd \in app.connected /\ app.installed = <<app.mpd>>)
          /\ app.mpd = 0 => app.installed = <<>>
          /\ \A a \in AppTasks :
                /\ app.ret[a] > 0 => app.ret[a] = app.mpd
                /\ (app.calls[a] > 0 /\ app.at[a] = "rest") => app.ret[a] # 0)
    /\ [][\A a \in AppTasks :
            /\ (app.at[a] = "connect" /\ app'.ret[a] = -1 /\ app'.at[a] = "rest")
                  => (app'.mpd = app.mpd /\ app.mpd = 0 /\ app'.mpd_lock.holder = 0)
            /\ (app.at[a] # "connect" /\ app'.at[a] = "connect")
                  => (app.mpd = 0 /\ app'.client[a] = app.made + 1
                         /\ app'.client[a] \notin app.connected)
            /\ (app.at[a] # "connect" /\ app'.calls[a] = app.calls[a] + 1)
                  => app.mpd # 0
         ]_vars

\* Two coroutines have the installed client, one of them after waiting for
\* mpd_lock, and a third coroutine's connect attempt failed before.
C28_Witness ==
    /\ app.mpd # 0
    /\ app.made >= 2
    /\ \E a \in app.queued : \E b \in AppTasks \ {a} :
          /\ app.ret[a] = app.mpd /\ app.ret[b] = app.mpd
          /\ \E c \in AppTasks \ {a, b} : app.ret[c] = -1

====
